---- MODULE Spec2Model ----
(***************************************************************************)
(* Model of src/src/App.tsx: the flood-forecasting data-entry form.        *)
(* State: the React state of App (formData, errors, isSubmitting,          *)
(* submitStatus, importMode), the file imports whose completion callback   *)
(* has not run yet, and the pending timers of handleSubmit.                *)
(***************************************************************************)
EXTENDS Integers, Sequences, FiniteSets, TLC

VARIABLES formData, errors, isSubmitting, submitStatus, importMode,
          pending, sendTimers, resetTimers,
          \* history, not program state, recorded by SpecRace: the imports
          \* now in flight were already in flight when another import's
          \* callback ran
          overtaken

vars == <<formData, errors, isSubmitting, submitStatus, importMode,
          pending, sendTimers, resetTimers, overtaken>>

(***************************************************************************)
(* Bounds of the model.                                                    *)
(***************************************************************************)
\* imports whose completion callback has not run yet
MaxPending == 1
\* pending timers of one kind
MaxTimers == 2

(***************************************************************************)
(* Text helpers: JavaScript string operations, computed character by       *)
(* character.                                                              *)
(***************************************************************************)
CharAt(s, i) == SubSeq(s, i, i)

UpperChars == "ABCDEFGHIJKLMNOPQRSTUVWXYZ"
LowerChars == "abcdefghijklmnopqrstuvwxyz"

LowerChar(c) ==
    IF \E i \in 1..26 : CharAt(UpperChars, i) = c
    THEN CharAt(LowerChars, CHOOSE i \in 1..26 : CharAt(UpperChars, i) = c)
    ELSE c

RECURSIVE toLowerCase(_)
toLowerCase(s) ==
    IF Len(s) = 0 THEN ""
    ELSE LowerChar(CharAt(s, 1)) \o toLowerCase(SubSeq(s, 2, Len(s)))

\* field.replace(/_/g, ' ')
RECURSIVE ReplaceUnderscores(_)
ReplaceUnderscores(s) ==
    IF Len(s) = 0 THEN ""
    ELSE (IF CharAt(s, 1) = "_" THEN " " ELSE CharAt(s, 1))
         \o ReplaceUnderscores(SubSeq(s, 2, Len(s)))

\* file.name.split('.').pop(): the text after the last '.', the whole name
\* when it has no '.'
SplitPop(name) ==
    LET dots == {i \in 1..Len(name) : CharAt(name, i) = "."}
    IN  IF dots = {} THEN name
        ELSE LET last == CHOOSE i \in dots : \A j \in dots : j <= i
             IN  SubSeq(name, last + 1, Len(name))

\* the extension compared as written, without toLowerCase()
FileExtensionCaseSensitive(name) == SplitPop(name)

FileExtension(name) == toLowerCase(SplitPop(name))

Digits == <<"0", "1", "2", "3", "4", "5", "6", "7", "8", "9">>

\* decimal text of a natural number
RECURSIVE NumToStr(_)
NumToStr(n) ==
    IF n < 10 THEN Digits[n + 1]
    ELSE NumToStr(n \div 10) \o Digits[(n % 10) + 1]

(***************************************************************************)
(* JavaScript values as JSON.parse and Papa.parse produce them.            *)
(***************************************************************************)
JNum(n)  == [t |-> "number", n |-> n]
JStr(s)  == [t |-> "string", s |-> s]
JBool(b) == [t |-> "boolean", b |-> b]
JNull    == [t |-> "null"]
JArr(items) == [t |-> "array", items |-> items]
\* an object: its own keys in insertion order and their values
JObj(keys, vals) == [t |-> "object", keys |-> keys, vals |-> vals]

\* String(v) throws a TypeError: an object whose own "toString" is not a
\* function (a JSON value never is one) has no primitive value
RECURSIVE StringThrows(_)
StringThrows(v) ==
    CASE v.t = "object" -> \E i \in DOMAIN v.keys : v.keys[i] = "toString"
      [] v.t = "array"  -> \E i \in DOMAIN v.items : StringThrows(v.items[i])
      [] OTHER -> FALSE

\* String(v)
RECURSIVE JSString(_)
RECURSIVE JoinItems(_, _)
JoinItems(items, i) ==
    IF i > Len(items) THEN ""
    ELSE (IF i > 1 THEN "," ELSE "")
         \o (IF items[i].t = "null" THEN "" ELSE JSString(items[i]))
         \o JoinItems(items, i + 1)
JSString(v) ==
    CASE v.t = "number"  -> NumToStr(v.n)
      [] v.t = "string"  -> v.s
      [] v.t = "boolean" -> (IF v.b THEN "true" ELSE "false")
      [] v.t = "null"    -> "null"
      [] v.t = "array"   -> JoinItems(v.items, 1)
      [] v.t = "object"  -> "[object Object]"

\* Object.keys(v) throws a TypeError
ObjectKeysThrows(v) == v.t = "null"

\* Object.keys(v): own enumerable string keys, in order
ObjectKeys(v) ==
    CASE v.t = "object" -> v.keys
      [] v.t = "array"  -> [i \in 1..Len(v.items) |-> NumToStr(i - 1)]
      [] v.t = "string" -> [i \in 1..Len(v.s) |-> NumToStr(i - 1)]
      [] OTHER -> <<>>

\* v[key] for a key that Object.keys(v) lists
JSGet(v, key) ==
    CASE v.t = "object" ->
            v.vals[CHOOSE i \in DOMAIN v.keys : v.keys[i] = key]
      [] v.t = "array"  ->
            v.items[CHOOSE i \in DOMAIN v.items : NumToStr(i - 1) = key]
      [] v.t = "string" ->
            JStr(CharAt(v.s, CHOOSE i \in 1..Len(v.s) : NumToStr(i - 1) = key))

(***************************************************************************)
(* The schema: initialData, and the property operations the import uses.   *)
(***************************************************************************)
\* the fields of interface FormData
FormDataFields ==
    {"rainfall_intensity", "rainfall_accumulation", "temperature", "humidity",
     "wind_speed",
     "river_level", "river_discharge", "soil_moisture", "groundwater_level",
     "elevation", "slope", "land_use", "soil_type",
     "sat_rainfall", "sat_soil_moisture", "drone_image",
     "iot_river_level", "iot_river_flow", "iot_temp", "iot_humidity",
     "iot_wind",
     "past_flood", "flood_severity", "flood_duration"}

\* an initialData without the default of past_flood
initialDataAllEmpty == [k \in FormDataFields |-> ""]

initialData ==
    [rainfall_intensity |-> "", rainfall_accumulation |-> "",
     temperature |-> "", humidity |-> "", wind_speed |-> "",
     river_level |-> "", river_discharge |-> "", soil_moisture |-> "",
     groundwater_level |-> "",
     elevation |-> "", slope |-> "", land_use |-> "", soil_type |-> "",
     sat_rainfall |-> "", sat_soil_moisture |-> "", drone_image |-> "",
     iot_river_level |-> "", iot_river_flow |-> "", iot_temp |-> "",
     iot_humidity |-> "", iot_wind |-> "",
     past_flood |-> "no", flood_severity |-> "", flood_duration |-> ""]

\* the properties every plain object inherits from Object.prototype
ObjectPrototypeKeys ==
    {"constructor", "toString", "toLocaleString", "valueOf",
     "hasOwnProperty", "isPrototypeOf", "propertyIsEnumerable", "__proto__",
     "__defineGetter__", "__defineSetter__", "__lookupGetter__",
     "__lookupSetter__"}

\* key in obj: own and inherited properties
HasProperty(key, obj) == key \in DOMAIN obj \/ key \in ObjectPrototypeKeys

\* obj[key] = val on a plain object; assigning a string to __proto__ goes to
\* the inherited setter, which ignores a value that is not an object
SetProperty(obj, key, val) ==
    IF key = "__proto__" THEN obj
    ELSE IF key \in DOMAIN obj THEN [obj EXCEPT ![key] = val]
    ELSE [k \in DOMAIN obj \cup {key} |-> IF k = key THEN val ELSE obj[k]]

\* const mappedData = { ...initialData }; Object.keys(rec).forEach(...)
RECURSIVE Overlay(_, _, _, _)
Overlay(mapped, rec, keys, i) ==
    IF i > Len(keys) THEN mapped
    ELSE LET key == keys[i]
         IN  IF HasProperty(key, initialData)
             THEN Overlay(SetProperty(mapped, key, JSString(JSGet(rec, key))),
                          rec, keys, i + 1)
             ELSE Overlay(mapped, rec, keys, i + 1)

mappedData(rec) == Overlay(initialData, rec, ObjectKeys(rec), 1)

\* the overlay loop throws: String() of a value it converts throws
OverlayThrows(rec) ==
    LET keys == ObjectKeys(rec)
    IN  \E i \in DOMAIN keys :
            /\ HasProperty(keys[i], initialData)
            /\ StringThrows(JSGet(rec, keys[i]))

(***************************************************************************)
(* The files a user uploads: a name and a text, with what JSON.parse and   *)
(* Papa.parse (header: true, skipEmptyLines: true) make of each text.      *)
(***************************************************************************)
JsonKnown   == "{\"rainfall_intensity\":10,\"land_use\":\"urban\",\"past_flood\":true,\"station\":\"A1\"}"
JsonUnknown == "{\"station\":\"A1\"}"
JsonProto   == "{\"toString\":\"x\",\"__proto__\":\"y\"}"
JsonNested  == "{\"humidity\":[1,null,2],\"slope\":null,\"soil_type\":{}}"
JsonUnprintable == "{\"humidity\":{\"toString\":1}}"
JsonTruncated   == "{\"rainfall_intensity\":10"

CsvRequired == "rainfall_intensity,temperature,river_level,elevation,land_use\n10,25,2.5,100,urban"
CsvHeaderOnly == "rainfall_intensity,temperature\n"
CsvTwoRows  == "humidity,station\n40,A1\n55,B2"
CsvTooFew   == "rainfall_intensity,temperature\n30"
CsvEmpty    == ""

\* JSON.parse(text): ok = FALSE when it throws a SyntaxError
JSONparse(text) ==
    CASE text = "null"    -> [ok |-> TRUE, value |-> JNull]
      [] text = "5"       -> [ok |-> TRUE, value |-> JNum(5)]
      [] text = "\"abc\"" -> [ok |-> TRUE, value |-> JStr("abc")]
      [] text = "true"    -> [ok |-> TRUE, value |-> JBool(TRUE)]
      [] text = "[1,2]"   -> [ok |-> TRUE, value |-> JArr(<<JNum(1), JNum(2)>>)]
      [] text = JsonKnown ->
            [ok |-> TRUE,
             value |-> JObj(<<"rainfall_intensity", "land_use", "past_flood",
                              "station">>,
                            <<JNum(10), JStr("urban"), JBool(TRUE),
                              JStr("A1")>>)]
      [] text = JsonUnknown ->
            [ok |-> TRUE, value |-> JObj(<<"station">>, <<JStr("A1")>>)]
      [] text = JsonProto ->
            [ok |-> TRUE,
             value |-> JObj(<<"toString", "__proto__">>,
                            <<JStr("x"), JStr("y")>>)]
      [] text = JsonNested ->
            [ok |-> TRUE,
             value |-> JObj(<<"humidity", "slope", "soil_type">>,
                            <<JArr(<<JNum(1), JNull, JNum(2)>>), JNull,
                              JObj(<<>>, <<>>)>>)]
      [] text = JsonUnprintable ->
            [ok |-> TRUE,
             value |-> JObj(<<"humidity">>,
                            <<JObj(<<"toString">>, <<JNum(1)>>)>>)]
      [] OTHER -> [ok |-> FALSE]

\* the results object Papa.parse hands to complete: the data rows, keyed by
\* the header, and the structural errors it found (which do not stop it)
PapaParse(text) ==
    CASE text = CsvRequired ->
            [data |-> <<JObj(<<"rainfall_intensity", "temperature",
                               "river_level", "elevation", "land_use">>,
                             <<JStr("10"), JStr("25"), JStr("2.5"),
                               JStr("100"), JStr("urban")>>)>>,
             errors |-> <<>>]
      [] text = CsvHeaderOnly -> [data |-> <<>>, errors |-> <<>>]
      [] text = CsvTwoRows ->
            [data |-> <<JObj(<<"humidity", "station">>,
                             <<JStr("40"), JStr("A1")>>),
                        JObj(<<"humidity", "station">>,
                             <<JStr("55"), JStr("B2")>>)>>,
             errors |-> <<>>]
      [] text = CsvTooFew ->
            [data |-> <<JObj(<<"rainfall_intensity">>, <<JStr("30")>>)>>,
             errors |-> <<"TooFewFields">>]
      [] OTHER -> [data |-> <<>>, errors |-> <<"UndetectableDelimiter">>]

JsonTexts == {"null", "5", "\"abc\"", "true", "[1,2]", JsonKnown, JsonUnknown,
              JsonProto, JsonNested, JsonUnprintable, JsonTruncated}
CsvTexts  == {CsvRequired, CsvHeaderOnly, CsvTwoRows, CsvTooFew, CsvEmpty}

File(name, text) == [name |-> name, text |-> text]

Files ==
    {File("data.json", t) : t \in JsonTexts}
    \cup {File("data.csv", t) : t \in CsvTexts}
    \cup {File("DATA.JSON", JsonKnown), File("Data.Csv", CsvRequired),
          File("data.csv.json", CsvRequired), File("json", JsonKnown),
          File("notes.txt", JsonKnown), File("data.json.txt", JsonKnown),
          File("data.jsonl", JsonKnown), File("data.", CsvRequired)}

\* file.name.split('.').pop()?.toLowerCase(), for each file name
ExtensionOf ==
    [name \in {f.name : f \in Files} |-> FileExtension(name)]

\* what a user types or picks in a control
EditInputs ==
    {<<"rainfall_intensity", "">>, <<"rainfall_intensity", "12">>,
     <<"past_flood", "yes">>, <<"past_flood", "no">>}

(***************************************************************************)
(* The state after the first render of App.                                *)
(***************************************************************************)
Init ==
    /\ formData = initialData
    /\ errors = <<>>
    /\ isSubmitting = FALSE
    /\ submitStatus = "idle"
    /\ importMode = "manual"
    /\ pending = {}
    /\ sendTimers = 0
    /\ resetTimers = 0
    /\ overtaken = FALSE

(***************************************************************************)
(* handleInputChange: setFormData(prev => ({ ...prev, [name]: value })).   *)
(* The name is the name attribute of a rendered control.                   *)
(***************************************************************************)
\* an edit that also clears the error list
handleInputChangeClearsErrors(name, value) ==
    /\ formData' = SetProperty(formData, name, value)
    /\ errors' = <<>>
    /\ UNCHANGED <<isSubmitting, submitStatus, importMode, pending,
                   sendTimers, resetTimers, overtaken>>

handleInputChange(name, value) ==
    /\ UNCHANGED <<errors, isSubmitting, submitStatus, importMode, pending,
                   sendTimers, resetTimers>>
    /\ UNCHANGED overtaken
    /\ formData' = SetProperty(formData, name, value)

(***************************************************************************)
(* validateForm: the list it hands to setErrors.                           *)
(***************************************************************************)
requiredFields ==
    <<"rainfall_intensity", "temperature", "river_level", "elevation",
      "land_use">>

\* a test that trims first: a blank value counts as missing
FalsyTrimmed(str) == str \in {"", " "}

\* !formData[field] on a string
Falsy(str) == str = ""

\* `${field.replace(/_/g, ' ')} is required`, for each required field
RequiredMessage ==
    [i \in DOMAIN requiredFields |->
        ReplaceUnderscores(requiredFields[i]) \o " is required"]

RECURSIVE CollectErrors(_, _, _)
CollectErrors(data, fields, i) ==
    IF i > Len(fields) THEN <<>>
    ELSE (IF Falsy(data[fields[i]]) THEN <<RequiredMessage[i]>> ELSE <<>>)
         \o CollectErrors(data, fields, i + 1)

validateForm(data) == CollectErrors(data, requiredFields, 1)

(***************************************************************************)
(* handleSubmit, up to its await, and the two timers it sets.  The form    *)
(* is submitted through its submit button, which is disabled while         *)
(* isSubmitting or after success.                                          *)
(***************************************************************************)
\* the button disabled only while isSubmitting
SubmitDisabledWhileSubmitting == isSubmitting

\* the button disabled only after success
SubmitDisabledAfterSuccess == submitStatus = "success"

SubmitDisabled == isSubmitting \/ submitStatus = "success"

handleSubmit ==
    /\ ~SubmitDisabled
    /\ LET newErrors == validateForm(formData)
       IN  /\ errors' = newErrors
           /\ IF Len(newErrors) = 0
              THEN /\ sendTimers < MaxTimers
                   /\ isSubmitting' = TRUE
                   /\ submitStatus' = "sending"
                   /\ sendTimers' = sendTimers + 1
              ELSE UNCHANGED <<isSubmitting, submitStatus, sendTimers>>
    /\ UNCHANGED <<formData, importMode, pending, resetTimers>>
    /\ UNCHANGED overtaken

\* the rest of handleSubmit without its final setTimeout
SendDelayElapsesNoReset ==
    /\ sendTimers > 0
    /\ submitStatus' = "success"
    /\ isSubmitting' = FALSE
    /\ sendTimers' = sendTimers - 1
    /\ UNCHANGED <<formData, errors, importMode, pending, resetTimers>>
    /\ UNCHANGED overtaken

\* the awaited 5 second timer fires: the rest of handleSubmit runs
SendDelayElapses ==
    /\ sendTimers > 0
    /\ resetTimers < MaxTimers
    /\ submitStatus' = "success"
    /\ isSubmitting' = FALSE
    /\ sendTimers' = sendTimers - 1
    /\ resetTimers' = resetTimers + 1
    /\ UNCHANGED <<formData, errors, importMode, pending>>
    /\ UNCHANGED overtaken

\* the second 5 second timer fires
ResetDelayElapses ==
    /\ resetTimers > 0
    /\ submitStatus' = "idle"
    /\ resetTimers' = resetTimers - 1
    /\ UNCHANGED <<formData, errors, isSubmitting, importMode, pending,
                   sendTimers>>
    /\ UNCHANGED overtaken

(***************************************************************************)
(* handleFileUpload: the synchronous part.  The file input is rendered in  *)
(* file mode only; files is e.target.files.                                *)
(***************************************************************************)
Import(kind, text) == [kind |-> kind, text |-> text]

\* reader.readAsText(file) or Papa.parse(file, ...) begins; limit bounds the
\* imports in flight
StartImportWithin(limit, kind, text) ==
    /\ Cardinality(pending) < limit
    /\ Import(kind, text) \notin pending
    /\ pending' = pending \cup {Import(kind, text)}
    /\ UNCHANGED errors

StartImport(kind, text) == StartImportWithin(MaxPending, kind, text)

UploadWithin(limit, files) ==
    /\ importMode = "file"
    /\ UNCHANGED <<formData, isSubmitting, submitStatus, importMode,
                   sendTimers, resetTimers>>
    /\ UNCHANGED overtaken
    /\ IF Len(files) = 0
       THEN UNCHANGED <<errors, pending>>
       ELSE LET file == files[1]
                extension == ExtensionOf[file.name]
            IN  IF extension = "json"
                THEN StartImportWithin(limit, "json", file.text)
                ELSE IF extension = "csv"
                THEN StartImportWithin(limit, "csv", file.text)
                ELSE /\ errors' =
                          <<"Unsupported file type. Please use JSON or CSV.">>
                     /\ UNCHANGED pending

handleFileUpload(files) == UploadWithin(MaxPending, files)

(***************************************************************************)
(* The completion callbacks of an import.                                  *)
(***************************************************************************)
\* an onload whose catch also resets the form
JsonOnloadResetsOnError(imp) ==
    /\ imp \in pending
    /\ imp.kind = "json"
    /\ pending' = pending \ {imp}
    /\ LET parsed == JSONparse(imp.text)
       IN  IF \/ ~parsed.ok
              \/ ObjectKeysThrows(parsed.value)
              \/ OverlayThrows(parsed.value)
           THEN /\ errors' = <<"Invalid JSON file format">>
                /\ formData' = initialData
           ELSE /\ formData' = mappedData(parsed.value)
                /\ errors' = <<>>
    /\ UNCHANGED <<isSubmitting, submitStatus, importMode, sendTimers,
                   resetTimers>>

\* reader.onload of the JSON branch
JsonOnload(imp) ==
    /\ imp \in pending
    /\ imp.kind = "json"
    /\ pending' = pending \ {imp}
    /\ LET parsed == JSONparse(imp.text)
       IN  IF \/ ~parsed.ok
              \/ ObjectKeysThrows(parsed.value)
              \/ OverlayThrows(parsed.value)
           THEN /\ errors' = <<"Invalid JSON file format">>
                /\ UNCHANGED formData
           ELSE /\ formData' = mappedData(parsed.value)
                /\ errors' = <<>>
    /\ UNCHANGED <<isSubmitting, submitStatus, importMode, sendTimers,
                   resetTimers>>

\* complete of Papa.parse
CsvComplete(imp) ==
    /\ imp \in pending
    /\ imp.kind = "csv"
    /\ pending' = pending \ {imp}
    /\ LET results == PapaParse(imp.text)
       IN  IF Len(results.data) > 0
           THEN /\ formData' = mappedData(results.data[1])
                /\ errors' = <<>>
           ELSE /\ errors' = <<"CSV file is empty or invalid">>
                /\ UNCHANGED formData
    /\ UNCHANGED <<isSubmitting, submitStatus, importMode, sendTimers,
                   resetTimers>>

\* error of Papa.parse: the file could not be read
CsvError(imp) ==
    /\ imp \in pending
    /\ imp.kind = "csv"
    /\ pending' = pending \ {imp}
    /\ errors' = <<"Error parsing CSV file">>
    /\ UNCHANGED <<formData, isSubmitting, submitStatus, importMode,
                   sendTimers, resetTimers>>

(***************************************************************************)
(* The other controls.                                                     *)
(***************************************************************************)
\* the X of the error banner, rendered while there are errors
DismissErrors ==
    /\ Len(errors) > 0
    /\ errors' = <<>>
    /\ UNCHANGED <<formData, isSubmitting, submitStatus, importMode, pending,
                   sendTimers, resetTimers>>
    /\ UNCHANGED overtaken

\* the mode buttons of the header
SetImportMode(mode) ==
    /\ importMode' = mode
    /\ UNCHANGED <<formData, errors, isSubmitting, submitStatus, pending,
                   sendTimers, resetTimers>>
    /\ UNCHANGED overtaken

InputChange == \E inp \in EditInputs : handleInputChange(inp[1], inp[2])
FileUpload  == \E files \in {<<>>} \cup {<<f>> : f \in Files} :
                   handleFileUpload(files)
JsonDone    == \E imp \in pending : JsonOnload(imp) /\ UNCHANGED overtaken
CsvDone     == \E imp \in pending : CsvComplete(imp) /\ UNCHANGED overtaken
CsvFailed   == \E imp \in pending : CsvError(imp) /\ UNCHANGED overtaken
ModeSwitch  == \E mode \in {"manual", "file"} : SetImportMode(mode)

Next ==
    \/ InputChange
    \/ handleSubmit
    \/ SendDelayElapses
    \/ ResetDelayElapses
    \/ FileUpload
    \/ JsonDone
    \/ CsvDone
    \/ CsvFailed
    \/ DismissErrors
    \/ ModeSwitch

Spec == Init /\ [][Next]_vars

(***************************************************************************)
(* Validation alone: the form starts with any of RequiredValues in each    *)
(* required field (values an import can put there) and is submitted.       *)
(***************************************************************************)
RequiredValues == {"", " ", "7"}

InitValidate ==
    /\ \E g \in [{requiredFields[i] : i \in DOMAIN requiredFields}
                    -> RequiredValues] :
          formData = [k \in DOMAIN initialData |->
                         IF k \in DOMAIN g THEN g[k] ELSE initialData[k]]
    /\ errors = <<>>
    /\ isSubmitting = FALSE
    /\ submitStatus = "idle"
    /\ importMode = "manual"
    /\ pending = {}
    /\ sendTimers = 0
    /\ resetTimers = 0
    /\ overtaken = FALSE

NextValidate ==
    \/ handleSubmit
    \/ SendDelayElapses
    \/ ResetDelayElapses
    \/ DismissErrors

SpecValidate == InitValidate /\ [][NextValidate]_vars

(***************************************************************************)
(* The submission under fair timers: a timer that was set fires.           *)
(***************************************************************************)
LiveFiles ==
    {File("data.json", JsonKnown), File("data.json", JsonTruncated),
     File("data.csv", CsvRequired), File("data.csv", CsvHeaderOnly),
     File("notes.txt", JsonKnown)}

FileUploadLive == \E files \in {<<f>> : f \in LiveFiles} :
                      handleFileUpload(files)

NextLive ==
    \/ InputChange
    \/ handleSubmit
    \/ SendDelayElapses
    \/ ResetDelayElapses
    \/ FileUploadLive
    \/ JsonDone
    \/ CsvDone
    \/ CsvFailed
    \/ DismissErrors
    \/ ModeSwitch

LiveSpec ==
    /\ Init
    /\ [][NextLive]_vars
    /\ WF_vars(SendDelayElapses)
    /\ WF_vars(ResetDelayElapses)

(***************************************************************************)
(* Overlapping imports: a second file is uploaded while the first is still *)
(* being read, and the callbacks run in either order.                      *)
(***************************************************************************)
\* imports in flight at once
MaxRacing == 2

RaceFiles ==
    {File("data.json", JsonKnown), File("data.json", JsonNested),
     File("data.json", JsonProto), File("data.csv", CsvRequired),
     File("data.csv", CsvHeaderOnly)}

FileUploadRace == \E files \in {<<f>> : f \in RaceFiles} :
                      UploadWithin(MaxRacing, files)

\* the callback of imp runs while other imports are still in flight
Overtakes(imp) == overtaken' = (pending \ {imp} # {})

JsonDoneRace  == \E imp \in pending : JsonOnload(imp) /\ Overtakes(imp)
CsvDoneRace   == \E imp \in pending : CsvComplete(imp) /\ Overtakes(imp)
CsvFailedRace == \E imp \in pending : CsvError(imp) /\ Overtakes(imp)

NextRace ==
    \/ InputChange
    \/ handleSubmit
    \/ SendDelayElapses
    \/ ResetDelayElapses
    \/ FileUploadRace
    \/ JsonDoneRace
    \/ CsvDoneRace
    \/ CsvFailedRace
    \/ DismissErrors
    \/ ModeSwitch

SpecRace == Init /\ [][NextRace]_vars

(***************************************************************************)
(* Properties of the import.                                               *)
(***************************************************************************)
JsonFormatError  == "Invalid JSON file format"
CsvEmptyError    == "CSV file is empty or invalid"
CsvReadError     == "Error parsing CSV file"
UnsupportedError == "Unsupported file type. Please use JSON or CSV."

\* C1: in every reachable state the key set of formData is exactly the key
\* set of initialData, whatever keys an imported record contains.
C1_KeySetIsSchema == DOMAIN formData = DOMAIN initialData

\* the file text does not parse as JSON, or parses to a top-level value that
\* is not an object (a number, a string, a boolean, null or an array)
NotAJsonObject(text) ==
    \/ ~JSONparse(text).ok
    \/ JSONparse(text).value.t # "object"

\* C2: a JSON import whose text does not parse, or parses to a top-level
\* value that is not an object, sets the error list to the single JSON-format
\* error and leaves formData unchanged.
C2_NonObjectJsonFails ==
    [][\A imp \in pending :
          (JsonOnload(imp) /\ NotAJsonObject(imp.text))
          => (errors' = <<JsonFormatError>> /\ formData' = formData)]_vars

\* C3: a CSV import whose parse yields zero data rows or reports a
\* structural error sets exactly one error and leaves formData unchanged.
C3_CsvEmptyOrStructuralErrorFails ==
    [][\A imp \in pending :
          (/\ CsvComplete(imp)
           /\ \/ Len(PapaParse(imp.text).data) = 0
              \/ Len(PapaParse(imp.text).errors) > 0)
          => (Len(errors') = 1 /\ formData' = formData)]_vars

\* the FieldSet the normalization rule gives for a record: every schema key,
\* with the string form of the record's value where it has one and the
\* default elsewhere
DefaultsThenOverlay(rec) ==
    LET keys == ObjectKeys(rec)
    IN  [k \in DOMAIN initialData |->
            IF \E i \in DOMAIN keys : keys[i] = k
            THEN JSString(JSGet(rec, k))
            ELSE initialData[k]]

\* C4: a successful import (JSON or CSV) sets formData to defaults-then-
\* overlay of the parsed record, whatever formData was, with keys outside
\* the schema dropped, and leaves the error list empty.
C4_ImportReplacesByDefaultsThenOverlay ==
    [][\A imp \in pending :
          /\ (JsonOnload(imp) /\ errors' # <<JsonFormatError>>)
             => /\ formData' = DefaultsThenOverlay(JSONparse(imp.text).value)
                /\ errors' = <<>>
          /\ (CsvComplete(imp) /\ errors' # <<CsvEmptyError>>)
             => /\ formData' = DefaultsThenOverlay(PapaParse(imp.text).data[1])
                /\ errors' = <<>>]_vars

\* the part of a file name after its last '.', compared with ext letter by
\* letter without regard to case; a name without '.' has no extension
SameLetter(c, d) ==
    \/ c = d
    \/ \E i \in 1..26 :
          {c, d} = {CharAt(UpperChars, i), CharAt(LowerChars, i)}

HasExtension(name, ext) ==
    \E i \in 1..Len(name) :
        /\ CharAt(name, i) = "."
        /\ \A j \in (i + 1)..Len(name) : CharAt(name, j) # "."
        /\ Len(name) - i = Len(ext)
        /\ \A j \in 1..Len(ext) : SameLetter(CharAt(name, i + j), CharAt(ext, j))

HasDot(name) == \E i \in 1..Len(name) : CharAt(name, i) = "."

\* "json", "csv", "other" (another extension) or "none" (no '.'), per file name
ExtensionKind ==
    [name \in {f.name : f \in Files} |->
        IF HasExtension(name, "json") THEN "json"
        ELSE IF HasExtension(name, "csv") THEN "csv"
        ELSE IF HasDot(name) THEN "other"
        ELSE "none"]

\* a step in which an import fails: a file with another extension is
\* uploaded, a JSON text does not parse (or parses to a value the mapping
\* throws on), a CSV has no data rows, or a CSV cannot be read
ImportFails ==
    \/ \E f \in Files :
          ExtensionKind[f.name] = "other" /\ handleFileUpload(<<f>>)
    \/ \E imp \in pending :
          /\ JsonOnload(imp)
          /\ \/ ~JSONparse(imp.text).ok
             \/ ObjectKeysThrows(JSONparse(imp.text).value)
             \/ OverlayThrows(JSONparse(imp.text).value)
    \/ \E imp \in pending :
          CsvComplete(imp) /\ Len(PapaParse(imp.text).data) = 0
    \/ \E imp \in pending : CsvError(imp)

ImportErrors ==
    {UnsupportedError, JsonFormatError, CsvEmptyError, CsvReadError}

\* C5: every failed import (unsupported extension, JSON that does not parse,
\* CSV without data rows, CSV read error) leaves formData as it was and sets
\* the error list to exactly one import error, whatever errors were there.
C5_FailedImportKeepsFieldSet ==
    [][ImportFails
       => /\ formData' = formData
          /\ \E msg \in ImportErrors : errors' = <<msg>>]_vars

\* a failed import has acted on an edited form
C5_Witness ==
    /\ errors = <<CsvEmptyError>>
    /\ formData.rainfall_intensity = "12"
    /\ formData.past_flood = "yes"

\* C6: the import path follows the extension of the file name without
\* regard to case: json starts the JSON import, csv the CSV import, and any
\* other extension sets exactly the unsupported-format error, starts no
\* import and leaves formData unchanged.
C6_PathByExtension ==
    [][\A f \in Files :
          handleFileUpload(<<f>>)
          => /\ ExtensionKind[f.name] = "json"
                => /\ pending' = pending \cup {Import("json", f.text)}
                   /\ UNCHANGED <<formData, errors>>
             /\ ExtensionKind[f.name] = "csv"
                => /\ pending' = pending \cup {Import("csv", f.text)}
                   /\ UNCHANGED <<formData, errors>>
             /\ ExtensionKind[f.name] = "other"
                => /\ errors' = <<UnsupportedError>>
                   /\ UNCHANGED <<formData, pending>>]_vars

\* an upload with another extension was rejected while a JSON import, begun
\* by an earlier upload, is still being read
C6_Witness ==
    /\ errors = <<UnsupportedError>>
    /\ \E imp \in pending : imp.kind = "json"

(***************************************************************************)
(* Properties of validation and submission.                                *)
(***************************************************************************)
\* the errors of a FieldSet: one per empty required field, in this order
ExpectedErrors(data) ==
    (IF data.rainfall_intensity = ""
     THEN <<"rainfall intensity is required">> ELSE <<>>)
    \o (IF data.temperature = "" THEN <<"temperature is required">> ELSE <<>>)
    \o (IF data.river_level = "" THEN <<"river level is required">> ELSE <<>>)
    \o (IF data.elevation = "" THEN <<"elevation is required">> ELSE <<>>)
    \o (IF data.land_use = "" THEN <<"land use is required">> ELSE <<>>)

\* C7: a submit sets the error list to one error per required field whose
\* value is the empty string, in declaration order, worded "<name with
\* spaces> is required"; a blank value counts as present and no other field
\* gives an error, so five empty required fields give five errors.
C7_OneErrorPerEmptyRequiredField ==
    [][handleSubmit => errors' = ExpectedErrors(formData)]_vars

\* a submit has acted on a form whose required fields are all empty
C7_Witness ==
    /\ errors = <<"rainfall intensity is required", "temperature is required",
                  "river level is required", "elevation is required",
                  "land use is required">>
    /\ \A i \in DOMAIN requiredFields : formData[requiredFields[i]] = ""

\* C8: submitStatus changes only idle -> sending by a submit that passes
\* validation, sending -> success by the first timer and success -> idle by
\* the second; a submit that fails validation leaves it idle and sets the
\* errors.
C8_StatusTransitions ==
    /\ [][submitStatus' # submitStatus
          => \/ /\ submitStatus = "idle" /\ submitStatus' = "sending"
                /\ handleSubmit
                /\ ExpectedErrors(formData) = <<>>
             \/ /\ submitStatus = "sending" /\ submitStatus' = "success"
                /\ SendDelayElapses
             \/ /\ submitStatus = "success" /\ submitStatus' = "idle"
                /\ ResetDelayElapses]_vars
    /\ [][(handleSubmit /\ ExpectedErrors(formData) # <<>>)
          => /\ submitStatus = "idle" /\ submitStatus' = "idle"
             /\ errors' = ExpectedErrors(formData)]_vars

\* the first timer has fired while an import, begun during the submission,
\* was still in flight
C8_Witness ==
    /\ submitStatus = "success"
    /\ pending # {}
    /\ errors # <<>>

\* C9: while submitStatus is sending no submit is accepted, and at most one
\* submission timer is pending.
C9_OneSubmissionAtATime ==
    /\ sendTimers <= 1
    /\ submitStatus = "sending" => (sendTimers = 1 /\ ~ENABLED handleSubmit)

\* a submission is in flight on a form that would pass validation again
C9_Witness ==
    /\ submitStatus = "sending"
    /\ sendTimers = 1
    /\ ExpectedErrors(formData) = <<>>

\* C10: with fair timers, sending leads to success and success leads to
\* idle, whatever edits, imports and dismissals happen in between.
C10_SubmissionCompletes ==
    /\ (submitStatus = "sending") ~> (submitStatus = "success")
    /\ (submitStatus = "success") ~> (submitStatus = "idle")

\* a submission is in flight, an import has failed since it began and
\* another import is still being read
C10_Witness ==
    /\ submitStatus = "sending"
    /\ errors = <<JsonFormatError>>
    /\ pending # {}

(***************************************************************************)
(* Properties of overlapping imports, of initialization and of edits.      *)
(***************************************************************************)
\* C11: when imports overlap, the completion callback that runs last (its
\* import was in flight while the other's callback ran) and succeeds sets
\* formData to the defaults-then-overlay of its own record alone: no value
\* of the other import's record is kept and the two are not merged.
C11_LastCallbackWins ==
    [][\A imp \in pending :
          (overtaken /\ pending = {imp})
          => /\ (JsonOnload(imp) /\ errors' # <<JsonFormatError>>)
                => formData' = DefaultsThenOverlay(JSONparse(imp.text).value)
             /\ (CsvComplete(imp) /\ errors' # <<CsvEmptyError>>)
                => formData' =
                      DefaultsThenOverlay(PapaParse(imp.text).data[1])]_vars

\* the FieldSet holds exactly n fields, the fields of FormData, with
\* past_flood "no" and every other field empty
DefaultFieldSet(n) ==
    /\ DOMAIN formData = FormDataFields
    /\ Cardinality(DOMAIN formData) = n
    /\ formData.past_flood = "no"
    /\ \A k \in DOMAIN formData \ {"past_flood"} : formData[k] = ""

\* C12 as stated: at initialization the FieldSet holds exactly the 23 schema
\* fields, with past_flood "no" and every other field empty.
C12_InitialFieldSetHas23Fields == DefaultFieldSet(23) /\ [][TRUE]_vars

\* C12, amended: at initialization the FieldSet holds exactly the 24 fields
\* of FormData, with past_flood "no" and every other field empty.
C12_InitialFieldSet == DefaultFieldSet(24) /\ [][TRUE]_vars

\* the form as first rendered
C12_Witness ==
    /\ DefaultFieldSet(24)
    /\ errors = <<>>
    /\ submitStatus = "idle"
    /\ ~isSubmitting
    /\ importMode = "manual"
    /\ pending = {}
    /\ sendTimers = 0
    /\ resetTimers = 0

\* C13: a field edit sets the named field to the new value and leaves every
\* other field, the error list and the submission state unchanged, in every
\* submission state; the errors of a failed validation stay when the
\* missing field is filled in.
C13_EditChangesOneField ==
    [][\A inp \in EditInputs :
          handleInputChange(inp[1], inp[2])
          => /\ DOMAIN formData' = DOMAIN formData
             /\ formData'[inp[1]] = inp[2]
             /\ \A k \in DOMAIN formData \ {inp[1]} : formData'[k] = formData[k]
             /\ UNCHANGED <<errors, submitStatus, isSubmitting>>]_vars

\* a failed validation reported rainfall intensity as missing, the field was
\* then filled in, and the error is still listed
C13_Witness ==
    /\ formData.rainfall_intensity = "12"
    /\ \E i \in DOMAIN errors : errors[i] = "rainfall intensity is required"

====
